---- MODULE Spec2Model ----
(***************************************************************************)
(* CFScanner, python/cfscanner.py: the scan orchestrator.                  *)
(*                                                                         *)
(* The main program is one sequential process (pc is its position), the    *)
(* multiprocessing pool runs the probes, and SIGINT is an asynchronous     *)
(* event whose effect depends on the handler installed and on the main     *)
(* program's position.  Statements of the scan loop are separate steps so  *)
(* that a KeyboardInterrupt can be raised between any two of them, as      *)
(* Python's default SIGINT handler does.                                   *)
(***************************************************************************)
EXTENDS Integers, Sequences, FiniteSets, TLC

(* ------------------------------ bounds --------------------------------- *)
\* longest address-block list read_cidrs returns in the model
MaxBlocks == 2
\* largest args.n_tries
MaxTries == 2
\* args.threads, the pool's number of worker processes
threadsCount == 2

\* the value lines 192, 196 and 200 report when upload testing is disabled
Sentinel == -1

\* address-block descriptors
Blocks == {"a", "b"}

VARIABLES
    pc,               \* position of the main program
    state,            \* scheduler state: Idle, Running, Completed, Aborted, Cancelled, ...
    exitStatus,       \* process exit status, -1 while the process runs
    handler,          \* SIGINT handler of the main process
    n_tries,          \* args.n_tries
    do_upload_test,   \* test_config.do_upload_test
    file,             \* lines of INTERIM_RESULTS_PATH
    buffer,           \* lines written to the open outfile and not flushed yet
    cidr_list,        \* address blocks read
    cidr_scanned_ips, \* block -> results counted
    cidr_prog_tasks,  \* block -> task id of its progress tracker
    tasks,            \* progress.tasks: task id -> [completed, total]
    nextTaskId,       \* rich's next TaskID
    live,             \* the progress display is started
    pool,             \* "none", "running", "terminated"
    nextTask,         \* index of the next candidate the pool hands to a worker
    running,          \* indices of the candidates being probed
    results,          \* indices of the outcomes produced and not yet consumed
    consumed,         \* outcomes next(iterator) has delivered, in order
    res,              \* the result the loop is processing
    hist              \* observations for the properties (never read by the program)

vars == <<pc, state, exitStatus, handler, n_tries, do_upload_test, file, buffer,
          cidr_list, cidr_scanned_ips, cidr_prog_tasks, tasks, nextTaskId, live,
          pool, nextTask, running, results, consumed, res, hist>>

setupVars == <<n_tries, do_upload_test>>
progVars == <<cidr_scanned_ips, cidr_prog_tasks, tasks, nextTaskId, live>>
poolVars == <<pool, nextTask, running, results>>

(* --------------------------- pure helpers ------------------------------ *)
NoRes == [idx |-> 0, kind |-> "none"]

RECURSIVE SumSeq(_)
SumSeq(s) == IF s = <<>> THEN 0 ELSE Head(s) + SumSeq(Tail(s))

Abs(x) == IF x < 0 THEN -x ELSE x

\* a number of the table, kept exact as <<numerator, denominator>>
Num(v) == <<v, 1>>

\* statistics.mean
mean(s) == <<SumSeq(s), Len(s)>>

\* speedtest.tools.mean_jitter: mean of |latency[i] - latency[i-1]|
mean_jitter(s) ==
    IF Len(s) < 2 THEN Num(Sentinel)
    ELSE <<SumSeq([i \in 1..(Len(s) - 1) |-> Abs(s[i + 1] - s[i])]), Len(s) - 1>>

\* get_num_ips_in_cidr: the sampled candidate count of a block
get_num_ips_in_cidr(cidr) == IF cidr = "a" THEN 2 ELSE 1

\* cidr_to_ip_list: the sampled addresses of a block, in sampler order
cidr_to_ip_list(cidr) == [j \in 1..get_num_ips_in_cidr(cidr) |-> <<cidr, j>>]

RECURSIVE big_ip_list(_)
\* lines 163-164: every block's candidates, block order then sampler order
big_ip_list(cl) ==
    IF cl = <<>> THEN <<>>
    ELSE [j \in 1..get_num_ips_in_cidr(Head(cl)) |->
              [ip |-> cidr_to_ip_list(Head(cl))[j], cidr |-> Head(cl)]]
         \o big_ip_list(Tail(cl))

Candidates == big_ip_list(cidr_list)
NumCandidates == Len(Candidates)

\* the lists the address-block source can return
CidrLists == UNION {[1..n -> Blocks] : n \in 0..MaxBlocks}

\* lines 151-154
n_total_ips(cl) == SumSeq([i \in 1..Len(cl) |-> get_num_ips_in_cidr(cl[i])])

\* lines 80-94: the header's columns
titles(n) ==
    << <<"ip", 0>>, <<"avg_download_speed", 0>>, <<"avg_upload_speed", 0>>,
       <<"avg_download_latency", 0>>, <<"avg_upload_latency", 0>>,
       <<"avg_download_jitter", 0>>, <<"avg_upload_jitter", 0>> >>
    \o [i \in 1..n |-> <<"download_speed", i>>]
    \o [i \in 1..n |-> <<"upload_speed", i>>]
    \o [i \in 1..n |-> <<"download_latency", i>>]
    \o [i \in 1..n |-> <<"upload_latency", i>>]

HeaderLine(n) == [kind |-> "header", fields |-> titles(n), nl |-> TRUE]

\* the number of comma-separated fields of a line
NumFields(line) == IF line.kind = "header" THEN Len(line.fields) ELSE 1 + Len(line.fields)

\* the TrialSet test_ip returns for candidate i: nTries samples per sequence;
\* without its upload sequences when hasUpload is FALSE
TrialSet(i, n, measured, hasUpload) ==
    LET down == [speed |-> [t \in 1..n |-> i + t], latency |-> [t \in 1..n |-> i * t]]
        up == IF measured
                THEN [speed |-> [t \in 1..n |-> i], latency |-> [t \in 1..n |-> t * t]]
                ELSE [speed |-> [t \in 1..n |-> Sentinel],
                      latency |-> [t \in 1..n |-> Sentinel]]
    IN  IF hasUpload THEN [download |-> down, upload |-> up]
        ELSE [download |-> down]

\* what a probe can hand back when upload testing is on / off
OutcomeKinds(upload) ==
    IF upload THEN {"ok", "fail", "fatal", "error"}
    ELSE {"ok", "ok_noupload", "fail", "fatal", "error"}

IsOk(kind) == kind \in {"ok", "ok_noupload"}

\* res.result of a successful outcome
ResultOf(r) == TrialSet(r.idx, n_tries, do_upload_test, r.kind = "ok")

RecordLines(f) == {i \in 1..Len(f) : f[i].kind = "record"}
HeaderLines(f) == {i \in 1..Len(f) : f[i].kind = "header"}

(* ------------------------------ Init ----------------------------------- *)
\* the state at line 48, after parse_args' values are fixed
Init ==
    /\ pc = "start"
    /\ state = "Idle"
    /\ exitStatus = -1
    /\ handler = "default"
    /\ n_tries \in 1..MaxTries
    /\ do_upload_test \in BOOLEAN
    /\ file = <<>>
    /\ buffer = <<>>
    /\ cidr_list = <<>>
    /\ cidr_scanned_ips = <<>>
    /\ cidr_prog_tasks = <<>>
    /\ tasks = <<>>
    /\ nextTaskId = 0
    /\ live = FALSE
    /\ pool = "none"
    /\ nextTask = 1
    /\ running = {}
    /\ results = {}
    /\ consumed = <<>>
    /\ res = NoRes
    /\ hist = [setupFailed |-> FALSE, intr |-> "none", intrAt |-> 0,
               fatal |-> FALSE, fileAtFatal |-> <<>>,
               created |-> [c \in Blocks |-> 0],
               advanced |-> [c \in Blocks |-> 0],
               removed |-> [c \in Blocks |-> 0],
               caught |-> 0]

(* --------------------------- process exit ------------------------------ *)
\* the process ends: every enclosing `with` is left (Pool.__exit__ terminates the
\* pool, Progress.__exit__ stops the display, the open outfile is flushed and closed)
Leave(status, st) ==
    /\ pc' = "exited"
    /\ exitStatus' = status
    /\ state' = st
    /\ pool' = IF pool = "running" THEN "terminated" ELSE pool
    /\ running' = {}
    /\ live' = FALSE
    /\ file' = file \o buffer
    /\ buffer' = <<>>
    /\ UNCHANGED <<handler, setupVars, cidr_list, cidr_scanned_ips, cidr_prog_tasks,
                   tasks, nextTaskId, nextTask, results, consumed, res>>

\* variant: the failure is logged and the exit(1) is missing
SetupNoExit ==
    /\ hist' = [hist EXCEPT !.setupFailed = TRUE]
    /\ pc' = CASE pc = "config_dir" -> "result_dir"
               [] pc = "result_dir" -> "result_file"
               [] pc = "result_file" -> "read_cidrs"
               [] pc = "read_cidrs" -> "test_config"
               [] OTHER -> "sample"
    /\ UNCHANGED <<state, exitStatus, handler, setupVars, file, buffer, cidr_list,
                   progVars, poolVars, consumed, res>>

\* exit(1) of a setup step (lines 63, 73, 101, 112, 116, 131, 134, 142, 146, 149)
SetupExit ==
    /\ hist' = [hist EXCEPT !.setupFailed = TRUE]
    /\ Leave(1, "SetupFailed")

\* a setup step succeeded: go on with the next one
SetupGoto(next) ==
    /\ pc' = next
    /\ UNCHANGED <<state, exitStatus, handler, setupVars, file, buffer, cidr_list,
                   progVars, poolVars, consumed, res, hist>>

(* ------------------------------ setup ---------------------------------- *)
\* lines 50-52
InstallPrescanHandler ==
    /\ pc = "start"
    /\ pc' = "config_dir"
    /\ handler' = "prescan"
    /\ UNCHANGED <<state, exitStatus, setupVars, file, buffer, cidr_list,
                   progVars, poolVars, consumed, res, hist>>

\* lines 56-65
CreateConfigDir ==
    /\ pc = "config_dir"
    /\ \E no_vpn \in BOOLEAN, created \in BOOLEAN :
          IF no_vpn \/ created THEN SetupGoto("result_dir") ELSE SetupExit

\* lines 67-74
CreateResultDir ==
    /\ pc = "result_dir"
    /\ \/ SetupGoto("result_file")
       \/ SetupExit

\* line 79: open(path, "w") leaves an empty file
OpenWrite(f) == <<>>

\* variant: the record writer opens the file as line 79 does, with "w"
OpenAppendTruncating(f) == <<>>

\* line 204: open(path, "a") keeps what the file holds
OpenAppend(f) == f

\* variant: the file is created and line 95's write is missing
FileAfterCreateNoHeader(n) == OpenWrite(file)

\* lines 79-95: the file as the setup leaves it
FileAfterCreate(n) == OpenWrite(file) \o <<HeaderLine(n)>>

\* lines 77-101
CreateResultFile ==
    /\ pc = "result_file"
    /\ \/ /\ pc' = "read_cidrs"
          /\ file' = FileAfterCreate(n_tries)
          /\ UNCHANGED <<state, exitStatus, handler, setupVars, buffer, cidr_list,
                         progVars, poolVars, consumed, res, hist>>
       \/ SetupExit

\* lines 105-134
ReadCidrs ==
    /\ pc = "read_cidrs"
    /\ \/ \E cl \in CidrLists :
             /\ pc' = "test_config"
             /\ cidr_list' = cl
             /\ UNCHANGED <<state, exitStatus, handler, setupVars, file, buffer,
                            progVars, poolVars, consumed, res, hist>>
       \/ SetupExit

\* lines 135-149
BuildTestConfig ==
    /\ pc = "test_config"
    /\ \/ SetupGoto("sample")
       \/ SetupExit

\* lines 151-168; a malformed block descriptor raises out of the sampler, uncaught
SampleBlocks ==
    /\ pc = "sample"
    /\ \/ /\ pc' = "progress"
          /\ cidr_scanned_ips' = [c \in {cidr_list[i] : i \in 1..Len(cidr_list)} |-> 0]
          /\ cidr_prog_tasks' = <<>>
          /\ UNCHANGED <<state, exitStatus, handler, setupVars, file, buffer, cidr_list,
                         tasks, nextTaskId, live, poolVars, consumed, res, hist>>
       \/ /\ cidr_list # <<>>
          /\ UNCHANGED hist
          /\ Leave(1, "Unhandled")

\* progress.add_task: a new entry under the next TaskID
add_task(ts, id, total) == [t \in (DOMAIN ts) \cup {id} |->
                               IF t = id THEN [completed |-> 0, total |-> total] ELSE ts[t]]

\* progress.remove_task
remove_task(ts, id) == [t \in (DOMAIN ts) \ {id} |-> ts[t]]

\* progress.update(id, advance=1)
advance(ts, id) == [ts EXCEPT ![id].completed = @ + 1]

all_ips_task == 0

\* lines 170-172
StartProgress ==
    /\ pc = "progress"
    /\ pc' = "pool"
    /\ live' = TRUE
    /\ tasks' = add_task(tasks, nextTaskId, n_total_ips(cidr_list))
    /\ nextTaskId' = nextTaskId + 1
    /\ UNCHANGED <<state, exitStatus, handler, setupVars, file, buffer, cidr_list,
                   cidr_scanned_ips, cidr_prog_tasks, poolVars, consumed, res, hist>>

\* line 173
ConstructPool ==
    /\ pc = "pool"
    /\ pc' = "restore"
    /\ pool' = "running"
    /\ state' = "Running"
    /\ UNCHANGED <<exitStatus, handler, setupVars, file, buffer, cidr_list, progVars,
                   nextTask, running, results, consumed, res, hist>>

\* line 174
RestoreHandler ==
    /\ pc = "restore"
    /\ pc' = "imap"
    /\ handler' = "default"
    /\ UNCHANGED <<state, exitStatus, setupVars, file, buffer, cidr_list, progVars,
                   poolVars, consumed, res, hist>>

\* lines 175-178: the candidates are handed to the pool and the loop is entered
Imap ==
    /\ pc = "imap"
    /\ pc' = "next"
    /\ UNCHANGED <<state, exitStatus, handler, setupVars, file, buffer, cidr_list,
                   progVars, poolVars, consumed, res, hist>>

(* ---------------------------- the pool --------------------------------- *)
\* the candidates are with the pool once line 175 has run
Submitted == pc \in {"next", "upd_all", "add_task", "upd_cidr", "record", "write",
                     "close", "incr", "remove", "h_fatal", "h_stop", "h_kbd", "h_exc"}

\* a free worker takes the next candidate of the list
WorkerStart ==
    /\ pool = "running"
    /\ Submitted
    /\ nextTask <= NumCandidates
    /\ Cardinality(running) < threadsCount
    /\ running' = running \cup {nextTask}
    /\ nextTask' = nextTask + 1
    /\ UNCHANGED <<pc, state, exitStatus, handler, setupVars, file, buffer, cidr_list,
                   progVars, pool, results, consumed, res, hist>>

\* test_ip returns a ProbeResult or raises; the pool keeps the outcome for the
\* iterator.  Nothing reads an outcome before next(iterator) delivers it, so its
\* content is drawn there
WorkerFinish ==
    /\ pool = "running"
    /\ \E i \in running :
          /\ running' = running \ {i}
          /\ results' = results \cup {i}
    /\ UNCHANGED <<pc, state, exitStatus, handler, setupVars, file, buffer, cidr_list,
                   progVars, pool, nextTask, consumed, res, hist>>

(* --------------------------- the scan loop ----------------------------- *)
\* variant: pool.imap_unordered, any finished result is handed out
ResultAvailableUnordered(i) == i \in results

\* pool.imap's iterator hands out result i when it is the next index and is there
ResultAvailable(i) == i = Len(consumed) + 1 /\ i \in results

\* variant: the iterator stops one outcome early
ExhaustedEarly == Len(consumed) + 1 >= NumCandidates

\* the iterator has delivered the outcome of every candidate of big_ip_list
Exhausted == Len(consumed) = NumCandidates

\* line 179: next(iterator) returns a ProbeResult, re-raises the worker's
\* exception, or raises StopIteration after the last candidate
NextResult ==
    /\ pc = "next"
    /\ \/ \E i \in 1..NumCandidates, kind \in OutcomeKinds(do_upload_test) :
             /\ ResultAvailable(i)
             /\ consumed' = Append(consumed, [idx |-> i, kind |-> kind])
             /\ results' = results \ {i}
             /\ pc' = CASE kind = "fatal" -> "h_fatal"
                        [] kind = "error" -> "h_exc"
                        [] OTHER -> "upd_all"
             /\ res' = IF kind \in {"fatal", "error"} THEN NoRes
                       ELSE [idx |-> i, kind |-> kind]
             /\ hist' = IF kind = "fatal" /\ ~hist.fatal
                        THEN [hist EXCEPT !.fatal = TRUE, !.fileAtFatal = file]
                        ELSE hist
       \/ /\ Exhausted
          /\ pc' = "h_stop"
          /\ UNCHANGED <<results, consumed, res, hist>>
    /\ UNCHANGED <<state, exitStatus, handler, setupVars, file, buffer, cidr_list,
                   progVars, pool, nextTask, running>>

\* res.cidr
ResCidr == Candidates[res.idx].cidr

\* line 180
UpdateAll ==
    /\ pc = "upd_all"
    /\ pc' = "add_task"
    /\ tasks' = advance(tasks, all_ips_task)
    /\ UNCHANGED <<state, exitStatus, handler, setupVars, file, buffer, cidr_list,
                   cidr_scanned_ips, cidr_prog_tasks, nextTaskId, live, poolVars,
                   consumed, res, hist>>

\* lines 181-185
AddCidrTask ==
    /\ pc = "add_task"
    /\ pc' = "upd_cidr"
    /\ IF cidr_scanned_ips[ResCidr] = 0
       THEN /\ tasks' = add_task(tasks, nextTaskId, get_num_ips_in_cidr(ResCidr))
            /\ cidr_prog_tasks' = [c \in (DOMAIN cidr_prog_tasks) \cup {ResCidr} |->
                                      IF c = ResCidr THEN nextTaskId
                                      ELSE cidr_prog_tasks[c]]
            /\ nextTaskId' = nextTaskId + 1
            /\ hist' = [hist EXCEPT !.created[ResCidr] = @ + 1]
       ELSE UNCHANGED <<tasks, cidr_prog_tasks, nextTaskId, hist>>
    /\ UNCHANGED <<state, exitStatus, handler, setupVars, file, buffer, cidr_list,
                   cidr_scanned_ips, live, poolVars, consumed, res>>

\* line 186: updating a task that was removed raises KeyError
UpdateCidrTask ==
    /\ pc = "upd_cidr"
    /\ IF ResCidr \in DOMAIN cidr_prog_tasks /\ cidr_prog_tasks[ResCidr] \in DOMAIN tasks
       THEN /\ tasks' = advance(tasks, cidr_prog_tasks[ResCidr])
            /\ pc' = "record"
            /\ hist' = [hist EXCEPT !.advanced[ResCidr] = @ + 1]
       ELSE /\ pc' = "h_exc"
            /\ UNCHANGED <<tasks, hist>>
    /\ UNCHANGED <<state, exitStatus, handler, setupVars, file, buffer, cidr_list,
                   cidr_scanned_ips, cidr_prog_tasks, nextTaskId, live, poolVars,
                   consumed, res>>

\* lines 189-200 and 205-213: the fields after the ip
res_parts(r) ==
    LET result == ResultOf(r)
        down == result["download"]
        up == result["upload"]
    IN  << mean(down.speed),
           IF do_upload_test THEN mean(up.speed) ELSE Num(Sentinel),
           mean(down.latency),
           IF do_upload_test THEN mean(up.latency) ELSE Num(Sentinel),
           mean_jitter(down.latency),
           IF do_upload_test THEN mean_jitter(up.latency) ELSE Num(Sentinel) >>
        \o [t \in 1..Len(down.speed) |-> Num(down.speed[t])]
        \o [t \in 1..Len(up.speed) |-> Num(up.speed[t])]
        \o [t \in 1..Len(down.latency) |-> Num(down.latency[t])]
        \o [t \in 1..Len(up.latency) |-> Num(up.latency[t])]

\* line 215: the line of one AggregateRecord
RecordLine(r) ==
    [kind |-> "record", ip |-> Candidates[r.idx].ip, fields |-> res_parts(r), nl |-> TRUE]

\* lines 188-213 and 216-217: a failed result is only printed; for a successful one
\* the figures are computed, the file opened for appending and the fields gathered;
\* reading res.result["upload"] of a TrialSet without it raises KeyError
AggregateRecord ==
    /\ pc = "record"
    /\ IF ~IsOk(res.kind)
       THEN /\ pc' = "incr"
            /\ UNCHANGED file
       ELSE /\ file' = OpenAppend(file)
            /\ pc' = IF "upload" \in DOMAIN ResultOf(res) THEN "write" ELSE "h_exc"
    /\ UNCHANGED <<state, exitStatus, handler, setupVars, buffer, cidr_list, progVars,
                   poolVars, consumed, res, hist>>

\* line 215
WriteRecord ==
    /\ pc = "write"
    /\ pc' = "close"
    /\ buffer' = Append(buffer, RecordLine(res))
    /\ UNCHANGED <<state, exitStatus, handler, setupVars, file, cidr_list, progVars,
                   poolVars, consumed, res, hist>>

\* leaving the `with` of line 204 flushes and closes the file
CloseOutfile ==
    /\ pc = "close"
    /\ pc' = "incr"
    /\ file' = file \o buffer
    /\ buffer' = <<>>
    /\ UNCHANGED <<state, exitStatus, handler, setupVars, cidr_list, progVars,
                   poolVars, consumed, res, hist>>

\* line 219
IncrScanned ==
    /\ pc = "incr"
    /\ pc' = "remove"
    /\ cidr_scanned_ips' = [cidr_scanned_ips EXCEPT ![ResCidr] = @ + 1]
    /\ UNCHANGED <<state, exitStatus, handler, setupVars, file, buffer, cidr_list,
                   cidr_prog_tasks, tasks, nextTaskId, live, poolVars, consumed, res,
                   hist>>

\* variant: the task is removed after every result, without the test of line 220
BlockFinishedAlways(cidr) == TRUE

\* line 220: the block has had as many results as it has candidates
BlockFinished(cidr) == cidr_scanned_ips[cidr] = get_num_ips_in_cidr(cidr)

\* lines 220-221, then back to line 177
RemoveCidrTask ==
    /\ pc = "remove"
    /\ pc' = "next"
    /\ res' = NoRes
    /\ IF BlockFinished(ResCidr)
       THEN /\ tasks' = remove_task(tasks, cidr_prog_tasks[ResCidr])
            /\ hist' = [hist EXCEPT !.removed[ResCidr] = @ + 1]
       ELSE UNCHANGED <<tasks, hist>>
    /\ UNCHANGED <<state, exitStatus, handler, setupVars, file, buffer, cidr_list,
                   cidr_scanned_ips, cidr_prog_tasks, nextTaskId, live, poolVars,
                   consumed>>

(* ------------------------- the except clauses -------------------------- *)
\* the loop is left by `break`
Break(st) ==
    /\ pc' = "break"
    /\ state' = st
    /\ UNCHANGED <<exitStatus, handler, setupVars, file, buffer, cidr_list,
                   cidr_scanned_ips, cidr_prog_tasks, nextTaskId, nextTask, results,
                   consumed, res, hist>>

\* variant: the fatal error is handled like any other exception, without `break`
HandleFatalContinue ==
    /\ pc = "h_fatal"
    /\ pc' = "next"
    /\ res' = NoRes
    /\ UNCHANGED <<state, exitStatus, handler, setupVars, file, buffer, cidr_list,
                   progVars, poolVars, consumed, hist>>

\* lines 222-227
HandleStartProxyServiceError ==
    /\ pc = "h_fatal"
    /\ live' = FALSE
    /\ pool' = "terminated"
    /\ running' = {}
    /\ UNCHANGED tasks
    /\ Break("Aborted")

\* lines 228-234
HandleStopIteration ==
    /\ pc = "h_stop"
    /\ tasks' = <<>>
    /\ live' = FALSE
    /\ UNCHANGED <<pool, running>>
    /\ Break("Completed")

\* lines 235-243
HandleKeyboardInterrupt ==
    /\ pc = "h_kbd"
    /\ tasks' = <<>>
    /\ live' = FALSE
    /\ pool' = "terminated"
    /\ running' = {}
    /\ Break("Cancelled")

\* variant: the clause ends with `break`, as the other three do
HandleExceptionBreak ==
    /\ pc = "h_exc"
    /\ pc' = "break"
    /\ res' = NoRes
    /\ hist' = [hist EXCEPT !.caught = @ + 1]
    /\ UNCHANGED <<state, exitStatus, handler, setupVars, file, buffer, cidr_list,
                   progVars, poolVars, consumed>>

\* lines 244-247, then back to line 177
HandleException ==
    /\ pc = "h_exc"
    /\ pc' = "next"
    /\ res' = NoRes
    /\ hist' = [hist EXCEPT !.caught = @ + 1]
    /\ UNCHANGED <<state, exitStatus, handler, setupVars, file, buffer, cidr_list,
                   progVars, poolVars, consumed>>

\* after the loop both `with` blocks are left and the script ends
Exit ==
    /\ pc = "break"
    /\ UNCHANGED hist
    /\ Leave(0, state)

(* ------------------------------ SIGINT --------------------------------- *)
\* the statements of the try body, lines 179-221
InTry == pc \in {"next", "upd_all", "add_task", "upd_cidr", "record", "write",
                 "close", "incr", "remove"}

\* the except clauses, lines 222-247
InHandler == pc \in {"h_fatal", "h_stop", "h_kbd", "h_exc"}

\* a SIGINT reaches the main process.  _prescan_sigint_handler (lines 25-28) exits
\* with 1; Python's default handler raises KeyboardInterrupt at the statement the
\* main program is at: inside the try body line 235 catches it, anywhere else it
\* propagates out of the script
Interrupt ==
    \/ /\ handler = "prescan"
       /\ pc \in {"config_dir", "result_dir", "result_file", "read_cidrs",
                  "test_config", "sample", "progress", "pool", "restore"}
       /\ hist' = [hist EXCEPT !.intr = "prescan", !.intrAt = Len(consumed)]
       /\ Leave(1, "PreScanInterrupted")
    \/ /\ handler = "default"
       /\ pc = "start"
       /\ hist' = [hist EXCEPT !.intr = "early", !.intrAt = Len(consumed)]
       /\ Leave(1, "Unhandled")
    \/ /\ handler = "default"
       /\ pc = "imap"
       /\ hist' = [hist EXCEPT !.intr = "gap", !.intrAt = Len(consumed)]
       /\ Leave(1, "Unhandled")
    \/ /\ handler = "default"
       /\ InHandler
       /\ hist' = [hist EXCEPT !.intr = "handler", !.intrAt = Len(consumed)]
       /\ Leave(1, "Unhandled")
    \/ /\ handler = "default"
       /\ InTry
       /\ pc' = "h_kbd"
       /\ file' = file \o buffer
       /\ buffer' = <<>>
       /\ hist' = [hist EXCEPT !.intr = "try", !.intrAt = Len(consumed)]
       /\ UNCHANGED <<state, exitStatus, handler, setupVars, cidr_list, progVars,
                      poolVars, consumed, res>>

(* ------------------------- the specification --------------------------- *)
Next ==
    \/ InstallPrescanHandler
    \/ CreateConfigDir
    \/ CreateResultDir
    \/ CreateResultFile
    \/ ReadCidrs
    \/ BuildTestConfig
    \/ SampleBlocks
    \/ StartProgress
    \/ ConstructPool
    \/ RestoreHandler
    \/ Imap
    \/ WorkerStart
    \/ WorkerFinish
    \/ NextResult
    \/ UpdateAll
    \/ AddCidrTask
    \/ UpdateCidrTask
    \/ AggregateRecord
    \/ WriteRecord
    \/ CloseOutfile
    \/ IncrScanned
    \/ RemoveCidrTask
    \/ HandleStartProxyServiceError
    \/ HandleStopIteration
    \/ HandleKeyboardInterrupt
    \/ HandleException
    \/ Exit
    \/ Interrupt

Spec == Init /\ [][Next]_vars

\* the steps of the main program
MainStep ==
    \/ InstallPrescanHandler \/ CreateConfigDir \/ CreateResultDir \/ CreateResultFile
    \/ ReadCidrs \/ BuildTestConfig \/ SampleBlocks \/ StartProgress \/ ConstructPool
    \/ RestoreHandler \/ Imap \/ NextResult \/ UpdateAll \/ AddCidrTask
    \/ UpdateCidrTask \/ AggregateRecord \/ WriteRecord \/ CloseOutfile \/ IncrScanned
    \/ RemoveCidrTask \/ HandleStartProxyServiceError \/ HandleStopIteration
    \/ HandleKeyboardInterrupt \/ HandleException \/ Exit

\* the main program keeps running, a free worker takes the next candidate and every
\* probe finishes; no SIGINT has to arrive
FairSpec ==
    Spec /\ WF_vars(MainStep) /\ WF_vars(WorkerStart) /\ WF_vars(WorkerFinish)

(* ------------------------------ claims --------------------------------- *)
NumRecords == Cardinality(RecordLines(file))

\* the ProbeResults next(iterator) has returned (a raised exception returns none)
Yielded == {j \in 1..Len(consumed) : consumed[j].kind \in {"ok", "ok_noupload", "fail"}}
OkYielded == {j \in 1..Len(consumed) : IsOk(consumed[j].kind)}

\* every block is listed once
DistinctBlocks == Cardinality({cidr_list[i] : i \in 1..Len(cidr_list)}) = Len(cidr_list)

\* the sum of the per-block scanned counters
ScannedSum == SumSeq([i \in 1..Len(cidr_list) |->
                        IF \E k \in 1..(i - 1) : cidr_list[k] = cidr_list[i] THEN 0
                        ELSE cidr_scanned_ips[cidr_list[i]]])

IsPrefix(s, t) == Len(s) <= Len(t) /\ \A i \in 1..Len(s) : s[i] = t[i]

\* the file is the header followed by complete record lines
WellFormedFile ==
    \/ file = <<>>
    \/ /\ file[1].kind = "header"
       /\ \A i \in 2..Len(file) : file[i].kind = "record"
       /\ \A i \in 1..Len(file) : file[i].nl /\ NumFields(file[i]) = 7 + 4 * n_tries

\* C1: the loop takes the outcomes in the order of the candidate list, each one only
\* after a worker has produced it and after all earlier ones were taken, and the
\* one result being processed is the last one taken.
C1_OrderedConsumption ==
    /\ \A j \in 1..Len(consumed) :
          /\ consumed[j].idx = j
          /\ consumed[j].idx < nextTask
          /\ consumed[j].idx \notin running
          /\ consumed[j].idx \notin results
    /\ res # NoRes => res.idx = consumed[Len(consumed)].idx

\* C1 witness: a later candidate has finished while the loop still waits for an
\* earlier one that is being probed, after a first result was taken.
C1_Witness ==
    /\ pc = "next"
    /\ Len(consumed) >= 1
    /\ (Len(consumed) + 1) \in running
    /\ \E i \in results : i > Len(consumed) + 1

\* C2 (as claimed, on the runs with upload testing on): whenever the loop is about
\* to ask for the next result, the file holds one record line per successful
\* ProbeResult delivered so far.
C2_RecordPerSuccess ==
    (do_upload_test /\ pc = "next") => NumRecords = Cardinality(OkYielded)

\* C3: the file never holds two header rows, a file that holds anything starts with
\* the header, the file holds it from pool construction on, and whatever waits to be
\* written is a record.
C3_SingleHeaderFirst ==
    /\ Cardinality(HeaderLines(file)) <= 1
    /\ file # <<>> => file[1] = HeaderLine(n_tries)
    /\ pool # "none" => HeaderLines(file) = {1}
    /\ \A i \in 1..Len(buffer) : buffer[i].kind = "record"

\* C3 witness: records were appended after the header.
C3_Witness == pc = "next" /\ Len(file) >= 3 /\ NumRecords = Len(file) - 1

\* C4: every step leaves the earlier file content as a prefix of the later one, and
\* in every state the file is empty or the header followed by complete record lines.
C4_AppendOnly == [][IsPrefix(file, file')]_vars /\ []WellFormedFile

\* C4 witness: the cancellation is caught while the loop still processes a result
\* whose line is in the file, after an earlier record.
C4_Witness ==
    /\ pc = "h_kbd"
    /\ IsOk(res.kind)
    /\ NumRecords >= 2
    /\ NumRecords = Cardinality(OkYielded)

\* C5: once the fatal error was delivered nothing more is taken from the iterator or
\* processed, the file stays as it was, the loop is left for Aborted (or by an
\* interrupt raised inside the except clause), and the pool is terminated.
C5_FatalStopsScan ==
    hist.fatal =>
        /\ consumed[Len(consumed)].kind = "fatal"
        /\ \A j \in 1..(Len(consumed) - 1) : consumed[j].kind # "fatal"
        /\ res = NoRes
        /\ file = hist.fileAtFatal
        /\ pc \in {"h_fatal", "break", "exited"}
        /\ state = (IF pc = "h_fatal" THEN "Running"
                    ELSE IF hist.intr = "handler" THEN "Unhandled" ELSE "Aborted")
        /\ pc # "h_fatal" => pool = "terminated" /\ running = {}

\* C5 witness: an aborted scan of two blocks with a record of the first block,
\* written before the failure, and no row of the second block, whose candidate was
\* never taken.
C5_Witness ==
    /\ state = "Aborted"
    /\ cidr_list = <<"a", "b">>
    /\ NumRecords >= 1
    /\ \A i \in RecordLines(file) : file[i].ip[1] = "a"
    /\ Len(consumed) < NumCandidates
    /\ pool = "terminated"

\* C6 (as claimed): a process that ended Completed has status 0 and one that ended
\* Aborted has a non-zero status.
C6_ExitStatusByState ==
    pc = "exited" =>
        /\ state = "Completed" => exitStatus = 0
        /\ state = "Aborted" => exitStatus # 0

\* C7 (as claimed): a run interrupted under the in-scan handler, after line 174,
\* ends Cancelled, with no tracker left, the pool terminated and no exception out
\* of the loop.
C7_InterruptLeadsToCancelled ==
    (pc = "exited" /\ hist.intr \in {"gap", "try", "handler"}) =>
        /\ state = "Cancelled"
        /\ tasks = <<>>
        /\ pool = "terminated"
        /\ exitStatus = 0

\* C8 (as claimed, on the runs with upload testing on and every block listed once):
\* when the cancellation is caught, each of the m ProbeResults delivered has advanced
\* the overall counter and its block's scanned counter and has its record if it was
\* successful.
C8_CancelAtConsumptionPoint ==
    (pc = "h_kbd" /\ do_upload_test /\ DistinctBlocks) =>
        /\ NumRecords = Cardinality(OkYielded)
        /\ tasks[all_ips_task].completed = Cardinality(Yielded)
        /\ ScannedSum = Cardinality(Yielded)

\* the columns of titles(n) that hold upload figures
UploadColumns(n) == {i \in 1..Len(titles(n)) :
                        titles(n)[i][1] \in {"avg_upload_speed", "avg_upload_latency",
                                            "avg_upload_jitter", "upload_speed",
                                            "upload_latency"}}

\* C9 (as claimed, on the runs with every block listed once): with upload testing
\* off, whenever the loop is about to ask for the next result every successful
\* ProbeResult delivered has its line, with as many fields as the header and the
\* sentinel in every upload column.
C9_UploadDisabledRecord ==
    (~do_upload_test /\ DistinctBlocks /\ pc = "next") =>
        /\ NumRecords = Cardinality(OkYielded)
        /\ \A i \in RecordLines(file) :
              /\ NumFields(file[i]) = NumFields(HeaderLine(n_tries))
              /\ \A c \in UploadColumns(n_tries) : file[i].fields[c - 1] = Num(Sentinel)

\* C10: a run in which a setup step failed has ended with a non-zero status, without
\* a pool, without a probe started and without a record line.
C10_SetupFailureBeforePool ==
    hist.setupFailed =>
        /\ pc = "exited"
        /\ state = "SetupFailed"
        /\ exitStatus # 0
        /\ pool = "none"
        /\ nextTask = 1 /\ running = {} /\ results = {}
        /\ NumRecords = 0 /\ buffer = <<>>

\* C10 witness: a setup step failed after the result file was created.
C10_Witness == hist.setupFailed /\ file # <<>> /\ exitStatus = 1

\* C11 (as claimed, on the runs with upload testing on): when the iterator is
\* exhausted, in a scan without fatal error and without cancellation, the per-block
\* scanned counters add up to the number of candidates and so does the overall
\* counter.
C11_CountersReachK ==
    (pc = "h_stop" /\ do_upload_test) =>
        /\ ScannedSum = NumCandidates
        /\ tasks[all_ips_task].completed = NumCandidates

\* the blocks of the list
ListedBlocks == {cidr_list[i] : i \in 1..Len(cidr_list)}

\* the ProbeResults of block c delivered so far
YieldedOf(c) == {j \in Yielded : Candidates[consumed[j].idx].cidr = c}

C13_TrackerLifecycle ==
    (pc = "next" /\ do_upload_test) =>
        \A c \in ListedBlocks :
           /\ hist.created[c] <= 1
           /\ hist.created[c] = 1 <=> YieldedOf(c) # {}
           /\ hist.advanced[c] = Cardinality(YieldedOf(c))

\* C14 (as claimed): when the loop has been left for Completed, Cancelled or
\* Aborted, no tracker is left, neither the overall one nor a block's, and the
\* display is stopped.
C14_NoTrackerLeft ==
    (pc \in {"break", "exited"} /\ state \in {"Completed", "Cancelled", "Aborted"}) =>
        tasks = <<>> /\ ~live

\* C15: after the except Exception clause has caught an error the scheduler is
\* Running with its pool until the loop is left; while candidates remain the loop
\* is asking for the next result and the pool can still produce or deliver one; and
\* a run that ends without interrupt and without fatal error ends Completed, with
\* every candidate's outcome taken.
C15_ErrorDoesNotStopScan ==
    hist.caught > 0 =>
        /\ pc \notin {"break", "exited"} => state = "Running" /\ pool = "running"
        /\ (pc = "next" /\ Len(consumed) < NumCandidates) =>
              ENABLED (NextResult \/ WorkerStart \/ WorkerFinish)
        /\ (pc \in {"break", "exited"} /\ hist.intr = "none" /\ ~hist.fatal) =>
              /\ state = "Completed"
              /\ Len(consumed) = NumCandidates

\* C15 witness: a completed scan in which a worker's exception and an exception
\* raised while processing were both caught and a later result was written.
C15_Witness ==
    /\ state = "Completed"
    /\ hist.caught >= 2
    /\ consumed[1].kind = "error"
    /\ IsOk(consumed[Len(consumed)].kind)
    /\ NumRecords >= 1

\* every candidate is waiting for a worker, being probed, produced, or taken by the
\* loop, and in one of these only
DispatchedOnce ==
    /\ nextTask <= NumCandidates + 1
    /\ \A i \in 1..NumCandidates :
          Cardinality({w \in {"waiting", "running", "produced", "taken"} :
                          \/ w = "waiting" /\ i >= nextTask
                          \/ w = "running" /\ i \in running
                          \/ w = "produced" /\ i \in results
                          \/ w = "taken" /\ \E j \in 1..Len(consumed) : consumed[j].idx = i})
          = (IF pool = "terminated" /\ i < nextTask /\ i \notin results
                /\ ~\E j \in 1..Len(consumed) : consumed[j].idx = i
             THEN 0 ELSE 1)
    /\ \A j, k \in 1..Len(consumed) : consumed[j].idx = consumed[k].idx => j = k

\* C16: every candidate is dispatched once and yields one outcome; the scan is
\* Completed only after the outcome of every candidate was taken; and once the
\* candidates are with the pool the scan eventually is Completed, unless an interrupt
\* or the fatal error ends it.
C16_EventuallyCompleted ==
    /\ []DispatchedOnce
    /\ [](state = "Completed" =>
             {consumed[j].idx : j \in 1..Len(consumed)} = 1..NumCandidates)
    /\ (pc = "next") ~> (state = "Completed" \/ hist.intr # "none" \/ hist.fatal)

\* C16 witness: a scan of four candidates is Completed with all four outcomes taken,
\* without interrupt and without fatal error.
C16_Witness ==
    /\ state = "Completed"
    /\ NumCandidates = 4
    /\ Len(consumed) = 4
    /\ hist.intr = "none"

\* C17 (as claimed): an interrupt under the pre-scan handler ends the process with a
\* non-zero status, no pool and no record; after line 52 the default handler is back in
\* force only once the pool is constructed; and an interrupt that arrives from then on
\* never leaves the script as an unhandled exception.
C17_PhaseSplitNoGap ==
    /\ hist.intr = "prescan" =>
          /\ pc = "exited" /\ exitStatus # 0
          /\ pool # "running"
          /\ NumRecords = 0
    /\ (handler = "default" /\ pc # "start" /\ hist.intr # "early") => pool # "none"
    /\ hist.intr \in {"gap", "try", "handler"} =>
          state \in {"Running", "Cancelled"}

\* the addresses of the file's record lines, top to bottom
RecordIps ==
    LET recs == SelectSeq(file, LAMBDA l : l.kind = "record")
    IN  [i \in 1..Len(recs) |-> recs[i].ip]

\* the addresses of the successful ProbeResults delivered to the loop, in order
OkIps ==
    LET oks == SelectSeq(consumed, LAMBDA c : IsOk(c.kind))
        cands == Candidates
    IN  [i \in 1..Len(oks) |-> cands[oks[i].idx].ip]

\* C18 (as claimed, on the runs with upload testing on): when the scan is Completed
\* the file's records are those of the successful ProbeResults delivered to the loop,
\* whatever the address-block list, a block listed twice included.
C18_RecordsIndependentOfProgress ==
    (state = "Completed" /\ do_upload_test) => RecordIps = OkIps

\* the addresses of the candidate list, in submission order
CandidateIps ==
    LET cands == Candidates
    IN  [i \in 1..Len(cands) |-> cands[i].ip]

RECURSIVE IsSubseq(_, _)
\* s is t with some of its elements left out
IsSubseq(s, t) ==
    IF s = <<>> THEN TRUE
    ELSE IF t = <<>> THEN FALSE
    ELSE IF Head(s) = Head(t) THEN IsSubseq(Tail(s), Tail(t))
    ELSE IsSubseq(s, Tail(t))

\* C19: the file's record lines, top to bottom, are the candidate list with some
\* candidates left out, and more narrowly the successful ProbeResults delivered so
\* far with some left out, so that no candidate has two records.
C19_RecordsSubsequence ==
    LET recs == RecordIps
    IN  /\ IsSubseq(recs, CandidateIps)
        /\ IsSubseq(recs, OkIps)

\* C19 witness: of four candidates the first failed and the second has its record,
\* while the fourth's probe finished before the third's.
C19_Witness ==
    /\ NumCandidates = 4
    /\ Len(consumed) = 2
    /\ consumed[1].kind = "fail"
    /\ RecordIps = <<Candidates[2].ip>>
    /\ 4 \in results
    /\ 3 \in running

====
